---- MODULE Spec2Model ----
(***************************************************************************)
(* Model of the formatted-output engine of src/printf.c: parse_format,     *)
(* uitoa, format_to_buffer and printf.                                     *)
(*                                                                         *)
(* A character is a one-character string; the terminating NUL of a C       *)
(* string is the empty string.  A C string is the sequence of its bytes    *)
(* before the NUL.  A 64-bit integer is a tuple of four 16-bit limbs,      *)
(* least significant first, so that every 64-bit operation of the code is  *)
(* computed exactly.                                                       *)
(***************************************************************************)
EXTENDS Integers, Sequences, FiniteSets, TLC

VARIABLES format, fpos, out, apos, pc, flags, cur, written

vars == <<format, fpos, out, apos, pc, flags, cur, written>>

----------------------------------------------------------------------------
(* Characters *)

NUL == ""

DigitChars == <<"0", "1", "2", "3", "4", "5", "6", "7", "8", "9">>

IsDigit(c) == \E k \in 1..10 : DigitChars[k] = c

DigitVal(c) == (CHOOSE k \in 1..10 : DigitChars[k] = c) - 1

digits_lower == <<"0", "1", "2", "3", "4", "5", "6", "7", "8", "9",
                  "a", "b", "c", "d", "e", "f">>

digits_upper == <<"0", "1", "2", "3", "4", "5", "6", "7", "8", "9",
                  "A", "B", "C", "D", "E", "F">>

\* n copies of the byte c (the padding loops of format_to_buffer)
Fill(c, n) == [k \in 1..n |-> c]

\* the byte *(s + i - 1) of the C string s: its bytes, then the terminating NUL
At(s, i) == IF i <= Len(s) THEN s[i] ELSE NUL

----------------------------------------------------------------------------
(* 64-bit integers as four 16-bit limbs, least significant first *)

Limb == 65536

Zero64 == <<0, 0, 0, 0>>

IsZero64(v) == v = Zero64

\* the sign bit of the value read as int64_t
IsNeg64(v) == v[4] >= 32768

\* v + 1 modulo 2^64
Inc64(v) ==
    LET s1 == v[1] + 1
        s2 == v[2] + (s1 \div Limb)
        s3 == v[3] + (s2 \div Limb)
        s4 == v[4] + (s3 \div Limb)
    IN  <<s1 % Limb, s2 % Limb, s3 % Limb, s4 % Limb>>

\* two's complement negation modulo 2^64
Neg64(v) == Inc64(<<65535 - v[1], 65535 - v[2], 65535 - v[3], 65535 - v[4]>>)

\* the 64-bit pattern of a small integer n
FromInt(n) ==
    IF n >= 0 THEN <<n % Limb, n \div Limb, 0, 0>>
    ELSE Neg64(<<(-n) % Limb, (-n) \div Limb, 0, 0>>)

\* num / base and num % base for 2 <= base <= 16, by long division
DivMod64(v, base) ==
    LET t4 == v[4]
        t3 == (t4 % base) * Limb + v[3]
        t2 == (t3 % base) * Limb + v[2]
        t1 == (t2 % base) * Limb + v[1]
    IN  [quot |-> <<t1 \div base, t2 \div base, t3 \div base, t4 \div base>>,
         rem  |-> t1 % base]

\* integer conversions of the value fetched from the argument source
SignExt8(v) ==
    LET b == v[1] % 256
    IN  IF b >= 128 THEN <<65280 + b, 65535, 65535, 65535>> ELSE <<b, 0, 0, 0>>

SignExt16(v) ==
    IF v[1] >= 32768 THEN <<v[1], 65535, 65535, 65535>> ELSE <<v[1], 0, 0, 0>>

SignExt32(v) ==
    IF v[2] >= 32768 THEN <<v[1], v[2], 65535, 65535>> ELSE <<v[1], v[2], 0, 0>>

ZeroExt8(v) == <<v[1] % 256, 0, 0, 0>>

ZeroExt16(v) == <<v[1], 0, 0, 0>>

ZeroExt32(v) == <<v[1], v[2], 0, 0>>

INT64_MIN == <<0, 0, 0, 32768>>

\* the smallest int, and int negation as the two's complement machine does it
INT_MIN == (0 - 2147483647) - 1

NegInt(n) == IF n = INT_MIN THEN INT_MIN ELSE 0 - n

----------------------------------------------------------------------------
(* uitoa *)

Reverse(s) == [k \in 1..Len(s) |-> s[Len(s) + 1 - k]]

\* the digits as the conversion loop writes them: least significant first
RECURSIVE uitoaLoop(_, _, _)
uitoaLoop(num, base, digits) ==
    IF IsZero64(num) THEN <<>>
    ELSE LET dm == DivMod64(num, base)
         IN  <<digits[dm.rem + 1]>> \o uitoaLoop(dm.quot, base, digits)

\* faulty variant of uitoa: the digits are left in the order the loop wrote them
uitoa_NoReverse(num, base, uppercase) ==
    LET digits == IF uppercase THEN digits_upper ELSE digits_lower
    IN  IF IsZero64(num) THEN <<"0">>
        ELSE uitoaLoop(num, base, digits)

\* the string left in the buffer
uitoa(num, base, uppercase) ==
    LET digits == IF uppercase THEN digits_upper ELSE digits_lower
    IN  IF IsZero64(num) THEN <<"0">>
        ELSE Reverse(uitoaLoop(num, base, digits))

----------------------------------------------------------------------------
(* parse_format *)

\* the directive as parse_format initialises it
InitFlags ==
    [left_justify |-> 0, always_sign |-> 0, space_sign |-> 0, zero_pad |-> 0,
     alternate_form |-> 0, width |-> 0, precision |-> -1,
     length_modifier |-> NUL, specifier |-> NUL]

WIDTH_FROM_ARG == 0 - 1

PRECISION_FROM_ARG == 0 - 2

\* the flag loop: st is [fl |-> directive, i |-> cursor]
RECURSIVE ParseFlagChars(_, _)
ParseFlagChars(f, st) ==
    LET c == At(f, st.i)
    IN  IF c = "-" THEN
            ParseFlagChars(f, [fl |-> [st.fl EXCEPT !.left_justify = 1], i |-> st.i + 1])
        ELSE IF c = "+" THEN
            ParseFlagChars(f, [fl |-> [st.fl EXCEPT !.always_sign = 1], i |-> st.i + 1])
        ELSE IF c = " " THEN
            ParseFlagChars(f, [fl |-> [st.fl EXCEPT !.space_sign = 1], i |-> st.i + 1])
        ELSE IF c = "0" THEN
            ParseFlagChars(f, [fl |-> [st.fl EXCEPT !.zero_pad = 1], i |-> st.i + 1])
        ELSE IF c = "#" THEN
            ParseFlagChars(f, [fl |-> [st.fl EXCEPT !.alternate_form = 1], i |-> st.i + 1])
        ELSE st

\* the decimal loops of width and precision: [val |-> number, i |-> cursor]
RECURSIVE ParseDecimal(_, _, _)
ParseDecimal(f, i, acc) ==
    IF IsDigit(At(f, i)) THEN ParseDecimal(f, i + 1, acc * 10 + DigitVal(At(f, i)))
    ELSE [val |-> acc, i |-> i]

ParseWidth(f, st) ==
    IF IsDigit(At(f, st.i)) THEN
        LET d == ParseDecimal(f, st.i, 0)
        IN  [fl |-> [st.fl EXCEPT !.width = d.val], i |-> d.i]
    ELSE IF At(f, st.i) = "*" THEN
        [fl |-> [st.fl EXCEPT !.width = WIDTH_FROM_ARG], i |-> st.i + 1]
    ELSE st

ParsePrecision(f, st) ==
    IF At(f, st.i) = "." THEN
        IF IsDigit(At(f, st.i + 1)) THEN
            LET d == ParseDecimal(f, st.i + 1, 0)
            IN  [fl |-> [st.fl EXCEPT !.precision = d.val], i |-> d.i]
        ELSE IF At(f, st.i + 1) = "*" THEN
            [fl |-> [st.fl EXCEPT !.precision = PRECISION_FROM_ARG], i |-> st.i + 2]
        ELSE [fl |-> [st.fl EXCEPT !.precision = 0], i |-> st.i + 1]
    ELSE st

ParseLength(f, st) ==
    LET c == At(f, st.i)
        set(m, n) == [fl |-> [st.fl EXCEPT !.length_modifier = m], i |-> st.i + n]
    IN  IF c = "h" THEN
            IF At(f, st.i + 1) = "h" THEN set("H", 2) ELSE set("h", 1)
        ELSE IF c = "l" THEN
            IF At(f, st.i + 1) = "l" THEN set("L", 2) ELSE set("l", 1)
        ELSE IF c = "j" THEN set("j", 1)
        ELSE IF c = "z" THEN set("z", 1)
        ELSE IF c = "t" THEN set("t", 1)
        ELSE IF c = "L" THEN set("B", 1)
        ELSE st

\* parse_format(f + start - 1, &flags): the directive and the bytes consumed
parse_format(f, start) ==
    LET s1 == ParseFlagChars(f, [fl |-> InitFlags, i |-> start])
        s2 == ParseWidth(f, s1)
        s3 == ParsePrecision(f, s2)
        s4 == ParseLength(f, s3)
    IN  [flags    |-> [s4.fl EXCEPT !.specifier = At(f, s4.i)],
         consumed |-> (s4.i + 1) - start]

----------------------------------------------------------------------------
(* format_to_buffer: width and precision taken from the argument source *)

\* flags as they stand after the two va_arg(ap, int) blocks; w and p are the
\* arguments read (ignored when the directive has no '*')
ResolveWidth(fl, w) ==
    IF fl.width = WIDTH_FROM_ARG THEN
        IF w < 0 THEN [fl EXCEPT !.left_justify = 1, !.width = NegInt(w)]
        ELSE [fl EXCEPT !.width = w]
    ELSE fl

ResolvePrecision(fl, p) ==
    IF fl.precision = PRECISION_FROM_ARG THEN
        IF p < 0 THEN [fl EXCEPT !.precision = -1]
        ELSE [fl EXCEPT !.precision = p]
    ELSE fl

Resolve(fl, w, p) == ResolvePrecision(ResolveWidth(fl, w), p)

\* the arguments a directive reads before its value, in the order read
StarArgs(fl) ==
    (IF fl.width = WIDTH_FROM_ARG THEN <<"width">> ELSE <<>>)
    \o (IF fl.precision = PRECISION_FROM_ARG THEN <<"precision">> ELSE <<>>)

\* faulty variant of StarVals: the precision is read before the width
StarVals_PrecisionFirst(fl, w, p) ==
    (IF fl.precision = PRECISION_FROM_ARG THEN <<p>> ELSE <<>>)
    \o (IF fl.width = WIDTH_FROM_ARG THEN <<w>> ELSE <<>>)

\* the values those va_arg(ap, int) calls return, in the order read, when the
\* caller passed w for the width and p for the precision
StarVals(fl, w, p) ==
    (IF fl.width = WIDTH_FROM_ARG THEN <<w>> ELSE <<>>)
    \o (IF fl.precision = PRECISION_FROM_ARG THEN <<p>> ELSE <<>>)

----------------------------------------------------------------------------
(* format_to_buffer: case 's' *)

NullText == <<"(", "n", "u", "l", "l", ")">>

\* str after the NULL test
StrText(str) == IF str.null THEN NullText ELSE str.chars

\* faulty variant of StrLen: the precision is not applied
StrLen_IgnoresPrecision(fl, text) == Len(text)

\* len after the precision test
StrLen(fl, text) ==
    IF fl.precision >= 0 /\ fl.precision < Len(text) THEN fl.precision
    ELSE Len(text)

\* the bytes case 's' writes through ptr
StrField(fl, str) ==
    LET text == StrText(str)
        len  == StrLen(fl, text)
    IN  (IF fl.left_justify = 0 /\ fl.width > len
            THEN Fill(" ", fl.width - len) ELSE <<>>)
        \o SubSeq(text, 1, len)
        \o (IF fl.left_justify = 1 /\ fl.width > len
            THEN Fill(" ", fl.width - len) ELSE <<>>)

----------------------------------------------------------------------------
(* format_to_buffer: the scratch arrays of the integer cases *)

\* char temp_buffer[256], final_buffer[128], prec_buffer[128]
TEMP_SIZE == 256

FINAL_SIZE == 128

PREC_SIZE == 128

\* new_str = temp_buffer + 64
NEW_STR_OFFSET == 64

----------------------------------------------------------------------------
(* format_to_buffer: case 'd', 'i' *)

\* faulty variant of SignedValue: hh fetched as unsigned char
SignedValue_CharUnsigned(fl, slot) ==
    IF fl.length_modifier = "H" THEN ZeroExt8(slot)
    ELSE IF fl.length_modifier = "h" THEN SignExt16(slot)
    ELSE IF fl.length_modifier \in {"l", "L", "j", "z", "t"} THEN slot
    ELSE SignExt32(slot)

\* the value fetched for d/i under the length modifier, as int64_t
SignedValue(fl, slot) ==
    IF fl.length_modifier = "H" THEN SignExt8(slot)
    ELSE IF fl.length_modifier = "h" THEN SignExt16(slot)
    ELSE IF fl.length_modifier \in {"l", "L", "j", "z", "t"} THEN slot
    ELSE SignExt32(slot)

\* num_str of case 'd': the digits of the magnitude
SignedDigits(fl, magnitude) ==
    IF fl.precision = 0 /\ IsZero64(magnitude) THEN <<>>
    ELSE uitoa(magnitude, 10, FALSE)

\* faulty variant of SignChar: the space flag is tested before the '+' flag
SignChar_SpaceFirst(fl, is_negative) ==
    IF is_negative THEN <<"-">>
    ELSE IF fl.space_sign = 1 THEN <<" ">>
    ELSE IF fl.always_sign = 1 THEN <<"+">>
    ELSE <<>>

\* the sign character, as a string of zero or one byte
SignChar(fl, is_negative) ==
    IF is_negative THEN <<"-">>
    ELSE IF fl.always_sign = 1 THEN <<"+">>
    ELSE IF fl.space_sign = 1 THEN <<" ">>
    ELSE <<>>

\* final_str: sign and digits, through prec_buffer when the precision pads
SignedFinal(fl, sign, num_str) ==
    IF fl.precision > Len(num_str)
    THEN sign \o Fill("0", fl.precision - Len(num_str)) \o num_str
    ELSE sign \o num_str

\* bytes of final_buffer written: sign, digits, NUL
SignedFinalUsed(sign, num_str) == Len(sign) + Len(num_str) + 1

\* bytes of prec_buffer written: sign, zeros, digits, NUL
SignedPrecUsed(fl, sign, num_str) ==
    IF fl.precision > Len(num_str) THEN Len(sign) + fl.precision + 1 ELSE 0

\* faulty variant of SignedPadChar: the precision does not disable zero fill
SignedPadChar_IgnoresPrecision(fl) == IF fl.zero_pad = 1 THEN "0" ELSE " "

SignedPadChar(fl) == IF fl.zero_pad = 1 /\ fl.precision < 0 THEN "0" ELSE " "

\* faulty variant of SignedEmit: the sign is not moved in front of the fill
SignedEmit_FillBeforeSign(fl, sign, final_str) ==
    LET final_len == Len(final_str)
        pad       == fl.width - final_len
    IN  (IF fl.left_justify = 0 /\ fl.width > final_len
            THEN Fill(SignedPadChar(fl), pad) ELSE <<>>)
        \o final_str
        \o (IF fl.left_justify = 1 /\ fl.width > final_len
            THEN Fill(" ", pad) ELSE <<>>)

\* the bytes case 'd' writes through ptr, from the width padding on
SignedEmit(fl, sign, final_str) ==
    LET final_len == Len(final_str)
        before    == fl.left_justify = 0 /\ fl.width > final_len
        pad       == fl.width - final_len
        pad_char  == SignedPadChar(fl)
        signFirst == before /\ pad_char = "0" /\ sign # <<>>
    IN  (IF signFirst THEN sign ELSE <<>>)
        \o (IF before THEN Fill(pad_char, pad) ELSE <<>>)
        \o (IF signFirst THEN Tail(final_str) ELSE final_str)
        \o (IF fl.left_justify = 1 /\ fl.width > final_len
            THEN Fill(" ", pad) ELSE <<>>)

----------------------------------------------------------------------------
(* format_to_buffer: case 'u', 'o', 'x', 'X', 'p' *)

UnsignedValue(fl, slot) ==
    IF fl.specifier = "p" THEN slot
    ELSE IF fl.length_modifier = "H" THEN ZeroExt8(slot)
    ELSE IF fl.length_modifier = "h" THEN ZeroExt16(slot)
    ELSE IF fl.length_modifier \in {"l", "L", "j", "z", "t"} THEN slot
    ELSE ZeroExt32(slot)

Base(fl) ==
    IF fl.specifier = "p" THEN 16
    ELSE IF fl.specifier = "o" THEN 8
    ELSE IF fl.specifier \in {"x", "X"} THEN 16
    ELSE 10

Uppercase(fl) == fl.specifier = "X"

\* flags.alternate_form after the pointer test
AlternateForm(fl) == IF fl.specifier = "p" THEN 1 ELSE fl.alternate_form

\* num_str of the unsigned case before the precision padding
UnsignedDigits(fl, value) ==
    IF fl.precision = 0 /\ IsZero64(value) /\ fl.specifier # "p" THEN <<>>
    ELSE uitoa(value, Base(fl), Uppercase(fl))

\* faulty variant of Prefix: the case of the conversion letter is not followed
Prefix_AlwaysLowercase(fl, value) ==
    IF AlternateForm(fl) = 1 /\ ~IsZero64(value) THEN
        IF Base(fl) = 8 THEN <<"0">>
        ELSE IF Base(fl) = 16 THEN <<"0", "x">>
        ELSE <<>>
    ELSE <<>>

\* prefix[0 .. prefix_len - 1]
Prefix(fl, value) ==
    IF AlternateForm(fl) = 1 /\ ~IsZero64(value) THEN
        IF Base(fl) = 8 THEN <<"0">>
        ELSE IF Base(fl) = 16 THEN <<"0", IF Uppercase(fl) THEN "X" ELSE "x">>
        ELSE <<>>
    ELSE <<>>

\* num_str after the precision padding
UnsignedBody(fl, prefix, num_str) ==
    IF fl.precision > Len(num_str) + Len(prefix)
    THEN Fill("0", fl.precision - (Len(num_str) + Len(prefix))) \o num_str
    ELSE num_str

\* bytes of temp_buffer written: the digits and NUL at its start, and the
\* padded body with its NUL from offset 64
UnsignedTempUsed(fl, prefix, digits) ==
    IF fl.precision > Len(digits) + Len(prefix)
    THEN NEW_STR_OFFSET + (fl.precision - Len(prefix)) + 1
    ELSE Len(digits) + 1

UnsignedPadChar(fl) == IF fl.zero_pad = 1 /\ fl.precision < 0 THEN "0" ELSE " "

\* the bytes the unsigned case writes through ptr
UnsignedEmit(fl, prefix, num_str) ==
    LET total_len == Len(num_str) + Len(prefix)
        pad       == fl.width - total_len
    IN  (IF fl.left_justify = 0 /\ fl.width > total_len
            THEN Fill(UnsignedPadChar(fl), pad) ELSE <<>>)
        \o prefix
        \o num_str
        \o (IF fl.left_justify = 1 /\ fl.width > total_len
            THEN Fill(" ", pad) ELSE <<>>)

----------------------------------------------------------------------------
(* Doubles as exact decimals: [cls, neg, ip, fd] is the value with integer  *)
(* part ip and fraction digits fd, so that value / 10, value * 10 and the   *)
(* rounder 0.5 * 0.1^precision are computed without error                   *)

Dbl(neg, ip, fd) == [cls |-> "fin", neg |-> neg, ip |-> ip, fd |-> fd]

\* value == 0.0
IsZeroD(v) == v.ip = 0 /\ \A k \in 1..Len(v.fd) : v.fd[k] = 0

\* value /= 10.0
Div10(v) == [v EXCEPT !.ip = v.ip \div 10, !.fd = <<v.ip % 10>> \o v.fd]

\* value *= 10.0
Mul10(v) ==
    [v EXCEPT !.ip = v.ip * 10 + (IF v.fd = <<>> THEN 0 ELSE v.fd[1]),
              !.fd = IF v.fd = <<>> THEN <<>> ELSE Tail(v.fd)]

\* d added at fraction position k, the carry running towards the point
RECURSIVE AddDigit(_, _, _)
AddDigit(fd, k, d) ==
    IF k = 0 THEN [fd |-> fd, carry |-> d]
    ELSE LET t == fd[k] + d
         IN  AddDigit([fd EXCEPT ![k] = t % 10], k - 1, t \div 10)

\* value += rounder, with rounder = 0.5 * 0.1^precision
AddRounder(v, precision) ==
    LET padded == v.fd \o Fill(0, (precision + 1) - Len(v.fd))
        sum    == AddDigit(padded, precision + 1, 5)
    IN  [v EXCEPT !.ip = v.ip + sum.carry, !.fd = sum.fd]

\* the two exponent loops: divide while >= 10, then multiply while < 1
RECURSIVE Normalise(_, _)
Normalise(v, exponent) ==
    IF v.ip >= 10 THEN Normalise(Div10(v), exponent + 1)
    ELSE IF v.ip = 0 /\ ~IsZeroD(v) THEN Normalise(Mul10(v), exponent - 1)
    ELSE [value |-> v, exponent |-> exponent]

\* the fractional digit loop
FracDigits(v, precision) ==
    [k \in 1..precision |-> DigitChars[(IF k <= Len(v.fd) THEN v.fd[k] ELSE 0) + 1]]

\* nan and inf, shared by ftoa and etoa
Special(value, uppercase) ==
    IF value.cls = "nan"
    THEN (IF uppercase THEN <<"N", "A", "N">> ELSE <<"n", "a", "n">>)
    ELSE (IF value.neg THEN <<"-">> ELSE <<>>)
         \o (IF uppercase THEN <<"I", "N", "F">> ELSE <<"i", "n", "f">>)

----------------------------------------------------------------------------
(* ftoa, etoa, gtoa *)

ftoa(value, precision0, uppercase, alternate_form) ==
    IF value.cls # "fin" THEN Special(value, uppercase)
    ELSE LET precision == IF precision0 < 0 THEN 6 ELSE precision0
             rounded   == AddRounder(value, precision)
         IN  (IF value.neg THEN <<"-">> ELSE <<>>)
             \o uitoa(FromInt(rounded.ip), 10, FALSE)
             \o (IF precision > 0 \/ alternate_form # 0
                 THEN <<".">> \o FracDigits(rounded, precision) ELSE <<>>)

\* the exponent part: letter, sign, at least two digits
ExponentText(exponent, uppercase) ==
    <<IF uppercase THEN "E" ELSE "e">>
    \o (IF exponent >= 0 THEN <<"+">> ELSE <<"-">>)
    \o LET e == IF exponent >= 0 THEN exponent ELSE 0 - exponent
       IN  IF e < 10 THEN <<"0", DigitChars[e + 1]>>
           ELSE uitoa(FromInt(e), 10, FALSE)

etoa(value, precision0, uppercase) ==
    IF value.cls # "fin" THEN Special(value, uppercase)
    ELSE LET precision == IF precision0 < 0 THEN 6 ELSE precision0
             sign      == IF value.neg THEN <<"-">> ELSE <<>>
         IN  IF IsZeroD(value)
             THEN sign \o <<"0">>
                  \o (IF precision > 0 THEN <<".">> \o Fill("0", precision) ELSE <<>>)
                  \o ExponentText(0, uppercase)
             ELSE LET norm     == Normalise(value, 0)
                      rounded  == AddRounder(norm.value, precision)
                      over     == rounded.ip >= 10
                      mantissa == IF over THEN Div10(rounded) ELSE rounded
                      exponent == IF over THEN norm.exponent + 1 ELSE norm.exponent
                  IN  sign
                      \o uitoa(FromInt(mantissa.ip), 10, FALSE)
                      \o (IF precision > 0
                          THEN <<".">> \o FracDigits(mantissa, precision) ELSE <<>>)
                      \o ExponentText(exponent, uppercase)

\* the exponent gtoa computes from the unrounded magnitude
GExponent(value) == IF IsZeroD(value) THEN 0 ELSE Normalise(value, 0).exponent

\* the test that sends gtoa to etoa
GScientific(exponent, precision) == exponent < -4 \/ exponent >= precision

\* faulty variant of gtoa: scientific only when the exponent exceeds the precision
gtoa_ExponentAbovePrecision(value, precision0, uppercase) ==
    IF value.cls # "fin" THEN etoa(value, precision0, uppercase)
    ELSE LET precision == IF precision0 < 0 THEN 6 ELSE precision0
             exponent  == GExponent(value)
         IN  IF exponent < -4 \/ exponent > precision
             THEN etoa(value, IF precision > 0 THEN precision - 1 ELSE precision,
                       uppercase)
             ELSE LET decimal_digits == (precision - 1) - exponent
                  IN  ftoa(value, IF decimal_digits < 0 THEN 0 ELSE decimal_digits,
                           uppercase, 0)

gtoa(value, precision0, uppercase) ==
    IF value.cls # "fin" THEN etoa(value, precision0, uppercase)
    ELSE LET precision == IF precision0 < 0 THEN 6 ELSE precision0
             exponent  == GExponent(value)
         IN  IF GScientific(exponent, precision)
             THEN etoa(value, IF precision > 0 THEN precision - 1 ELSE precision,
                       uppercase)
             ELSE LET decimal_digits == (precision - 1) - exponent
                  IN  ftoa(value, IF decimal_digits < 0 THEN 0 ELSE decimal_digits,
                           uppercase, 0)

----------------------------------------------------------------------------
(* format_to_buffer: case 'f', 'F', 'e', 'E', 'g', 'G' *)

FloatConvs == {"f", "F", "e", "E", "g", "G"}

\* the conversion routine each case calls
FloatText(fl, value) ==
    IF fl.specifier \in {"f", "F"}
    THEN ftoa(value, fl.precision, fl.specifier = "F", fl.alternate_form)
    ELSE IF fl.specifier \in {"e", "E"}
    THEN etoa(value, fl.precision, fl.specifier = "E")
    ELSE gtoa(value, fl.precision, fl.specifier = "G")

\* sign: taken from the string when it starts with one, else from the flags
FloatSign(fl, num_str) ==
    IF At(num_str, 1) = "-" THEN <<"-">>
    ELSE IF At(num_str, 1) = "+" THEN <<"+">>
    ELSE IF fl.always_sign = 1 THEN <<"+">>
    ELSE IF fl.space_sign = 1 THEN <<" ">>
    ELSE <<>>

\* copy_start: the string without the sign it carried
FloatBody(num_str) ==
    IF At(num_str, 1) \in {"-", "+"} THEN Tail(num_str) ELSE num_str

\* the bytes a floating-point case writes through ptr
FloatEmit(fl, num_str) ==
    LET sign      == FloatSign(fl, num_str)
        body      == FloatBody(num_str)
        total_len == Len(body) + Len(sign)
        pad       == fl.width - total_len
        pad_char  == IF fl.zero_pad = 1 THEN "0" ELSE " "
    IN  IF fl.left_justify = 0 /\ fl.width > total_len
        THEN (IF pad_char = "0" THEN sign \o Fill("0", pad)
              ELSE Fill(" ", pad) \o sign) \o body
        ELSE sign \o body
             \o (IF fl.left_justify = 1 /\ fl.width > total_len
                 THEN Fill(" ", pad) ELSE <<>>)

----------------------------------------------------------------------------
(* Inputs: templates and argument values *)

\* longest template of the exhaustive family
MaxRaw == 3

\* bytes read beyond the template's terminating NUL before the model stops
MaxOverrun == 2

\* capacity of the buffer printf hands to format_to_buffer
BUFFER_SIZE == 4096

FlagChars == {"-", "+", " ", "0", "#"}

FlagStr(S) ==
    (IF "-" \in S THEN <<"-">> ELSE <<>>) \o (IF "+" \in S THEN <<"+">> ELSE <<>>)
    \o (IF " " \in S THEN <<" ">> ELSE <<>>) \o (IF "#" \in S THEN <<"#">> ELSE <<>>)
    \o (IF "0" \in S THEN <<"0">> ELSE <<>>)

IntConvs == {"d", "i", "u", "o", "x", "X"}

\* every flag combination with and without width and precision
IntegerTemplates ==
    { <<"%">> \o FlagStr(S) \o w \o p \o <<c>> :
        S \in SUBSET FlagChars,
        w \in {<<>>, <<"5">>},
        p \in {<<>>, <<".">>, <<".", "2">>, <<".", "5">>},
        c \in IntConvs }

LengthTemplates ==
    { <<"%">> \o m \o <<c>> :
        m \in {<<"h", "h">>, <<"h">>, <<"l">>, <<"l", "l">>, <<"j">>, <<"z">>,
               <<"t">>, <<"L">>},
        c \in IntConvs }

StringTemplates ==
    { <<"%">> \o FlagStr(S) \o w \o p \o <<"s">> :
        S \in SUBSET {"-", "0"},
        w \in {<<>>, <<"4">>, <<"8">>},
        p \in {<<>>, <<".">>, <<".", "3">>, <<".", "9">>} }

\* width and precision from the argument source
StarTemplates ==
    { <<"%">> \o FlagStr(S) \o w \o <<c>> :
        S \in {{}, {"-"}, {"0"}},
        w \in {<<"*">>, <<".", "*">>, <<"*", ".", "*">>},
        c \in {"d", "x", "s", "q"} }

\* the floating-point conversions with '#', '0', '-', '+', width and precision
FloatTemplates ==
    { <<"%">> \o FlagStr(S) \o w \o p \o <<c>> :
        S \in SUBSET {"-", "+", "#", "0"},
        w \in {<<>>, <<"9">>},
        p \in {<<>>, <<".", "0">>, <<".", "1">>, <<".", "3">>},
        c \in FloatConvs }

\* precisions around the sizes of the scratch arrays
PrecisionTemplates ==
    { <<"%", ".", "1", "2", "7", "d">>, <<"%", "+", ".", "1", "2", "7", "d">>,
      <<"%", ".", "1", "2", "8", "i">>, <<"%", ".", "1", "9", "1", "x">>,
      <<"%", ".", "1", "9", "2", "x">>, <<"%", "#", ".", "1", "9", "3", "x">>,
      <<"%", ".", "1", "9", "2", "p">>, <<"%", ".", "2", "0", "0", "u">> }

MixedTemplates ==
    { <<"%", "%">>, <<"a", "%", "%", "b">>, <<"%", "c">>, <<"%", "5", "c">>,
      <<"%", "n">>, <<"a", "b", "%", "n">>, <<"%", "p">>,
      <<"%", "4", "0", "9", "6", "d">>,
      <<"%", "5", "q">>, <<"%", "-", "5", ".", "2", "l", "q">>,
      <<"[", "%", "5", "d", "]">>, <<"%", "d", "%", "s">>,
      <<"%", "+", "-", "+", "5", "d">>,
      <<"%", "s", "=", "%", "#", "x", "%", "%">> }

RawChars == {"%", "q", "5", "-", ".", "h", "*", "d", "a"}

\* every template of at most MaxRaw bytes over RawChars
RawTemplates == UNION { [1..n -> RawChars] : n \in 0..MaxRaw }

Templates ==
    IntegerTemplates \cup LengthTemplates \cup StringTemplates
    \cup StarTemplates \cup FloatTemplates \cup PrecisionTemplates
    \cup MixedTemplates \cup RawTemplates

IntVals == {0, 3, -3, 8, 255, -1, 123, 300, 123456}

\* argument slots holding an int, and slots holding a 64-bit integer
IntArgs == { FromInt(n) : n \in IntVals }

LongArgs == IntArgs \cup {INT64_MIN, <<65535, 65535, 65535, 32767>>}

WidthArgs == {-5, 7, BUFFER_SIZE, INT_MIN}

PrecArgs == {-1, 0, 3}

CharArgs == {"A", "z"}

StrArgs ==
    { [null |-> TRUE, chars |-> <<>>] }
    \cup { [null |-> FALSE, chars |-> t] :
             t \in { <<>>, <<"h", "i">>, <<"h", "e", "l", "l", "o">> } }

\* 0.0, 0.5, 1.5, 5.0, 123.0, 123.456, 100000.0, 1000000.0, 999999.5,
\* 9.9999995, 0.0001, 0.00001, 0.000123456, -1.5, -123.0, inf, -inf, nan
DoubleArgs ==
    { Dbl(FALSE, 0, <<>>), Dbl(FALSE, 0, <<5>>), Dbl(FALSE, 1, <<5>>),
      Dbl(FALSE, 5, <<>>), Dbl(FALSE, 123, <<>>), Dbl(FALSE, 123, <<4, 5, 6>>),
      Dbl(FALSE, 100000, <<>>), Dbl(FALSE, 1000000, <<>>),
      Dbl(FALSE, 999999, <<5>>), Dbl(FALSE, 9, <<9, 9, 9, 9, 9, 9, 5>>),
      Dbl(FALSE, 0, <<0, 0, 0, 1>>), Dbl(FALSE, 0, <<0, 0, 0, 0, 1>>),
      Dbl(FALSE, 0, <<0, 0, 0, 1, 2, 3, 4, 5, 6>>),
      Dbl(TRUE, 1, <<5>>), Dbl(TRUE, 123, <<>>),
      [cls |-> "inf", neg |-> FALSE, ip |-> 0, fd |-> <<>>],
      [cls |-> "inf", neg |-> TRUE, ip |-> 0, fd |-> <<>>],
      [cls |-> "nan", neg |-> FALSE, ip |-> 0, fd |-> <<>>] }

\* bytes that may lie in memory after the template
StrayBytes == {"a", "!"}

----------------------------------------------------------------------------
(* State *)

NoConv ==
    [kind |-> "none", start |-> 0, fstart |-> 1, astart |-> 0, args |-> <<>>,
     vals |-> <<>>, value |-> Zero64, overflow |-> FALSE,
     temp_used |-> 0, final_used |-> 0, prec_used |-> 0, stale |-> FALSE,
     sign |-> <<>>, prefix |-> <<>>, digits |-> <<>>, body |-> <<>>,
     arg |-> [null |-> FALSE, chars |-> <<>>], text |-> <<>>, field |-> <<>>,
     count |-> 0]

Init ==
    /\ format \in Templates
    /\ fpos = 1
    /\ out = <<>>
    /\ apos = 0
    /\ pc = "format"
    /\ flags = InitFlags
    /\ cur = NoConv
    /\ written = 0

\* what this iteration starts from: ptr - buffer, the cursor, nothing read yet
Begin(kind) ==
    [NoConv EXCEPT !.kind = kind, !.start = Len(out), !.fstart = fpos,
                   !.astart = apos]

\* a write at an index at or beyond the capacity is undefined: execution
\* goes on over corrupted memory, or faults
AfterWrite(newlen) ==
    IF newlen > BUFFER_SIZE THEN {"format", "fault"} ELSE {"format"}

\* a write past the end of a scratch array is undefined: the loop goes on
\* or the process faults
AfterScratch(temp, final, prec) ==
    IF temp > TEMP_SIZE \/ final > FINAL_SIZE \/ prec > PREC_SIZE
    THEN {"format", "fault"} ELSE {"format"}

----------------------------------------------------------------------------
(* format_to_buffer: the loop *)

InLoop == pc = "format" /\ fpos <= Len(format) + 1

\* *ptr++ = *format++
CopyLiteral ==
    /\ InLoop
    /\ At(format, fpos) # NUL
    /\ At(format, fpos) # "%"
    /\ out' = Append(out, At(format, fpos))
    /\ fpos' = fpos + 1
    /\ cur' = [Begin("literal") EXCEPT !.field = <<At(format, fpos)>>]
    /\ pc' \in AfterWrite(Len(out'))
    /\ UNCHANGED <<format, apos, flags, written>>

\* faulty variant of PercentLiteral: "%%" takes an argument like a conversion
PercentLiteral_ConsumesArgument ==
    /\ InLoop
    /\ At(format, fpos) = "%"
    /\ At(format, fpos + 1) = "%"
    /\ out' = Append(out, "%")
    /\ fpos' = fpos + 2
    /\ apos' = apos + 1
    /\ cur' = [Begin("percent") EXCEPT !.field = <<"%">>]
    /\ pc' \in AfterWrite(Len(out'))
    /\ UNCHANGED <<format, flags, written>>

\* "%%"
PercentLiteral ==
    /\ InLoop
    /\ At(format, fpos) = "%"
    /\ At(format, fpos + 1) = "%"
    /\ out' = Append(out, "%")
    /\ fpos' = fpos + 2
    /\ cur' = [Begin("percent") EXCEPT !.field = <<"%">>]
    /\ pc' \in AfterWrite(Len(out'))
    /\ UNCHANGED <<format, apos, flags, written>>

AtDirective == InLoop /\ At(format, fpos) = "%" /\ At(format, fpos + 1) # "%"

\* parse_format(format + 1, &flags)
Parsed == parse_format(format, fpos + 1)

WidthChoices == IF Parsed.flags.width = WIDTH_FROM_ARG THEN WidthArgs ELSE {0}

PrecChoices == IF Parsed.flags.precision = PRECISION_FROM_ARG THEN PrecArgs ELSE {0}

\* the part every directive shares: the cursor moves over the specifier and
\* the '*' arguments are read
Dispatch(fl) ==
    /\ fl.specifier = Parsed.flags.specifier
    /\ flags' = fl
    /\ UNCHANGED <<format, written>>

ConvChar ==
    /\ AtDirective
    /\ \E w \in WidthChoices, p \in PrecChoices, c \in CharArgs :
         LET fl == Resolve(Parsed.flags, w, p)
         IN  /\ fl.specifier = "c"
             /\ Dispatch(fl)
             /\ fpos' = fpos + Parsed.consumed + 1
             /\ apos' = apos + Len(StarArgs(Parsed.flags)) + 1
             /\ out' = Append(out, c)
             /\ cur' = [Begin("c") EXCEPT !.args = StarArgs(Parsed.flags) \o <<"int">>,
                                          !.vals = StarVals(Parsed.flags, w, p) \o <<c>>,
                                          !.text = <<c>>, !.field = <<c>>]
             /\ pc' \in AfterWrite(Len(out'))

ConvString ==
    /\ AtDirective
    /\ \E w \in WidthChoices, p \in PrecChoices, str \in StrArgs :
         LET fl == Resolve(Parsed.flags, w, p)
             field == StrField(fl, str)
         IN  /\ fl.specifier = "s"
             /\ Dispatch(fl)
             /\ fpos' = fpos + Parsed.consumed + 1
             /\ apos' = apos + Len(StarArgs(Parsed.flags)) + 1
             /\ out' = out \o field
             /\ cur' = [Begin("s") EXCEPT !.args = StarArgs(Parsed.flags) \o <<"char *">>,
                                          !.vals = StarVals(Parsed.flags, w, p) \o <<str>>,
                                          !.arg = str, !.text = StrText(str),
                                          !.body = SubSeq(StrText(str), 1, StrLen(fl, StrText(str))),
                                          !.field = field]
             /\ pc' \in AfterWrite(Len(out'))

\* value = -value overflows for the minimum value, which is undefined: the
\* negation wraps, or the build traps
NegateOutcomes(value) == IF value = INT64_MIN THEN {"wrap", "trap"} ELSE {"wrap"}

\* prec_buffer is declared inside the block of the precision test and
\* final_str still points into it when the copy loop runs, after the block
\* has ended: reading it is undefined, so the bytes are read as stored or the
\* build faults on the access
ScopeOutcomes(fl, num_str) ==
    IF fl.precision > Len(num_str) THEN {"wrap", "stale"} ELSE {"wrap"}

SignedArgs(fl) ==
    IF fl.length_modifier \in {"l", "L", "j", "z", "t"} THEN LongArgs ELSE IntArgs

ConvSigned ==
    /\ AtDirective
    /\ \E w \in WidthChoices, p \in PrecChoices :
         LET fl == Resolve(Parsed.flags, w, p)
         IN  /\ fl.specifier \in {"d", "i"}
             /\ Dispatch(fl)
             /\ fpos' = fpos + Parsed.consumed + 1
             /\ apos' = apos + Len(StarArgs(Parsed.flags)) + 1
             /\ \E slot \in SignedArgs(fl) :
                  LET value       == SignedValue(fl, slot)
                      is_negative == IsNeg64(value)
                      magnitude   == IF is_negative THEN Neg64(value) ELSE value
                      num_str     == SignedDigits(fl, magnitude)
                      sign        == SignChar(fl, is_negative)
                      final_str   == SignedFinal(fl, sign, num_str)
                      field       == SignedEmit(fl, sign, final_str)
                  IN  \E o \in (IF is_negative THEN NegateOutcomes(value) ELSE {"wrap"})
                                 \cup ScopeOutcomes(fl, num_str) :
                        IF o = "stale"
                        THEN /\ pc' = "fault"
                             /\ cur' = [Begin("d") EXCEPT
                                          !.value = value,
                                          !.prec_used = SignedPrecUsed(fl, sign, num_str),
                                          !.stale = TRUE]
                             /\ out' = out
                        ELSE IF o = "trap"
                        THEN /\ pc' = "fault"
                             /\ cur' = [Begin("d") EXCEPT !.value = value,
                                                          !.overflow = TRUE]
                             /\ out' = out
                        ELSE /\ out' = out \o field
                             /\ cur' = [Begin("d") EXCEPT
                                          !.args = StarArgs(Parsed.flags) \o <<"integer">>,
                                          !.vals = StarVals(Parsed.flags, w, p) \o <<slot>>,
                                          !.overflow = (value = INT64_MIN),
                                          !.temp_used = Len(num_str) + 1,
                                          !.final_used = SignedFinalUsed(sign, num_str),
                                          !.prec_used = SignedPrecUsed(fl, sign, num_str),
                                          !.stale = fl.precision > Len(num_str),
                                          !.value = value, !.sign = sign,
                                          !.digits = num_str, !.body = final_str,
                                          !.field = field]
                             /\ pc' \in AfterWrite(Len(out'))
                                         \cup AfterScratch(Len(num_str) + 1,
                                                  SignedFinalUsed(sign, num_str),
                                                  SignedPrecUsed(fl, sign, num_str))

UnsignedArgs(fl) ==
    IF fl.specifier = "p" \/ fl.length_modifier \in {"l", "L", "j", "z", "t"}
    THEN LongArgs ELSE IntArgs

ConvUnsigned ==
    /\ AtDirective
    /\ \E w \in WidthChoices, p \in PrecChoices :
         LET fl0 == Resolve(Parsed.flags, w, p)
             fl  == [fl0 EXCEPT !.alternate_form = AlternateForm(fl0)]
         IN  /\ fl.specifier \in {"u", "o", "x", "X", "p"}
             /\ Dispatch(fl)
             /\ fpos' = fpos + Parsed.consumed + 1
             /\ apos' = apos + Len(StarArgs(Parsed.flags)) + 1
             /\ \E slot \in UnsignedArgs(fl) :
                  LET value   == UnsignedValue(fl, slot)
                      digits  == UnsignedDigits(fl, value)
                      prefix  == Prefix(fl, value)
                      num_str == UnsignedBody(fl, prefix, digits)
                      field   == UnsignedEmit(fl, prefix, num_str)
                  IN  /\ out' = out \o field
                      /\ cur' = [Begin("u") EXCEPT
                                   !.args = StarArgs(Parsed.flags) \o <<"integer">>,
                                   !.vals = StarVals(Parsed.flags, w, p) \o <<slot>>,
                                   !.temp_used = UnsignedTempUsed(fl, prefix, digits),
                                   !.value = value, !.prefix = prefix,
                                   !.digits = digits, !.body = num_str,
                                   !.field = field]
                      /\ pc' \in AfterWrite(Len(out'))
                                  \cup AfterScratch(UnsignedTempUsed(fl, prefix, digits),
                                                    0, 0)

ConvFloat ==
    /\ AtDirective
    /\ \E w \in WidthChoices, p \in PrecChoices, value \in DoubleArgs :
         LET fl      == Resolve(Parsed.flags, w, p)
             num_str == FloatText(fl, value)
             field   == FloatEmit(fl, num_str)
         IN  /\ fl.specifier \in FloatConvs
             /\ Dispatch(fl)
             /\ fpos' = fpos + Parsed.consumed + 1
             /\ apos' = apos + Len(StarArgs(Parsed.flags)) + 1
             /\ out' = out \o field
             /\ cur' = [Begin("f") EXCEPT
                          !.args = StarArgs(Parsed.flags) \o <<"double">>,
                          !.vals = StarVals(Parsed.flags, w, p) \o <<value>>,
                          !.sign = FloatSign(fl, num_str),
                          !.body = FloatBody(num_str),
                          !.text = num_str, !.field = field]
             /\ pc' \in AfterWrite(Len(out'))

\* *count_ptr = (int)(ptr - buffer)
ConvN ==
    /\ AtDirective
    /\ \E w \in WidthChoices, p \in PrecChoices :
         LET fl == Resolve(Parsed.flags, w, p)
         IN  /\ fl.specifier = "n"
             /\ Dispatch(fl)
             /\ fpos' = fpos + Parsed.consumed + 1
             /\ apos' = apos + Len(StarArgs(Parsed.flags)) + 1
             /\ cur' = [Begin("n") EXCEPT !.args = StarArgs(Parsed.flags) \o <<"int *">>,
                                          !.vals = StarVals(Parsed.flags, w, p) \o <<"count_ptr">>,
                                          !.count = Len(out)]
             /\ UNCHANGED <<out, pc>>

KnownSpecifiers ==
    {"c", "s", "d", "i", "u", "o", "x", "X", "p", "f", "F", "e", "E", "g", "G", "n"}

\* default: format -= consumed; *ptr++ = *format++
UnknownSpecifier ==
    /\ AtDirective
    /\ \E w \in WidthChoices, p \in PrecChoices :
         LET fl == Resolve(Parsed.flags, w, p)
         IN  /\ fl.specifier \notin KnownSpecifiers
             /\ Dispatch(fl)
             /\ fpos' = ((fpos + Parsed.consumed + 1) - Parsed.consumed) + 1
             /\ apos' = apos + Len(StarArgs(Parsed.flags))
             /\ out' = Append(out, At(format, fpos + 1))
             /\ cur' = [Begin("unknown") EXCEPT !.args = StarArgs(Parsed.flags),
                                                !.vals = StarVals(Parsed.flags, w, p),
                                                !.count = Parsed.consumed,
                                                !.field = <<At(format, fpos + 1)>>]
             /\ pc' \in AfterWrite(Len(out'))

\* flags.width = -flags.width overflows for the smallest int, which is
\* undefined: the negation wraps (ResolveWidth), or the build traps here
WidthNegationTrap ==
    /\ AtDirective
    /\ Parsed.flags.width = WIDTH_FROM_ARG
    /\ INT_MIN \in WidthArgs
    /\ apos' = apos + 1
    /\ cur' = [Begin("trap") EXCEPT !.vals = <<INT_MIN>>, !.overflow = TRUE]
    /\ pc' = "fault"
    /\ UNCHANGED <<format, fpos, out, flags, written>>

\* while (*format) with the cursor beyond the terminating NUL: the byte read
\* is whatever lies there, or the read faults
ReadPastEnd ==
    /\ pc = "format"
    /\ fpos > Len(format) + 1
    /\ \/ /\ pc' = "write"
          /\ UNCHANGED <<fpos, out, cur>>
       \/ /\ pc' = "fault"
          /\ UNCHANGED <<fpos, out, cur>>
       \/ /\ fpos < Len(format) + 1 + MaxOverrun
          /\ \E b \in StrayBytes :
               /\ out' = Append(out, b)
               /\ cur' = [Begin("stray") EXCEPT !.field = <<b>>]
          /\ fpos' = fpos + 1
          /\ pc' \in AfterWrite(Len(out'))
    /\ UNCHANGED <<format, apos, flags, written>>

\* *ptr = '\0'; return (int)(ptr - buffer)
Finish ==
    /\ InLoop
    /\ At(format, fpos) = NUL
    /\ pc' \in (IF Len(out) >= BUFFER_SIZE THEN {"write", "fault"} ELSE {"write"})
    /\ UNCHANGED <<format, fpos, out, apos, flags, cur, written>>

----------------------------------------------------------------------------
(* printf *)

\* write(STDOUT_FILENO, buffer, len): all of the bytes, or an error
WriteResults(len) == {len, 0 - 1}

\* written = write(...); if (written < 0) exit(EXIT_FAILURE); return written
Write ==
    /\ pc = "write"
    /\ \E r \in WriteResults(Len(out)) :
         /\ written' = r
         /\ pc' = IF r < 0 THEN "exited" ELSE "returned"
    /\ UNCHANGED <<format, fpos, out, apos, flags, cur>>

Next ==
    \/ CopyLiteral
    \/ PercentLiteral
    \/ ConvChar
    \/ ConvString
    \/ ConvSigned
    \/ ConvUnsigned
    \/ ConvFloat
    \/ ConvN
    \/ UnknownSpecifier
    \/ WidthNegationTrap
    \/ ReadPastEnd
    \/ Finish
    \/ Write

Spec == Init /\ [][Next]_vars

----------------------------------------------------------------------------
(* uitoa on its own: the unsigned case calls it with any 64-bit value *)

\* limb values the 64-bit inputs are built from
UitoaLimbs == {0, 1, 9, 10, 255, 32768, 65535}

UitoaInit ==
    /\ format = <<>>
    /\ fpos = 1
    /\ out = <<>>
    /\ apos = 0
    /\ pc = "uitoa"
    /\ \E sp \in {"u", "o", "x", "X"} : flags = [InitFlags EXCEPT !.specifier = sp]
    /\ \E a, b, c, d \in UitoaLimbs :
          cur = [NoConv EXCEPT !.kind = "uitoa", !.value = <<a, b, c, d>>]
    /\ written = 0

\* uitoa(value, num_str, base, uppercase)
UitoaCall ==
    /\ pc = "uitoa"
    /\ cur' = [cur EXCEPT !.digits = uitoa(cur.value, Base(flags), Uppercase(flags))]
    /\ pc' = "uitoa done"
    /\ UNCHANGED <<format, fpos, out, apos, flags, written>>

UitoaNext == UitoaCall

UitoaSpec == UitoaInit /\ [][UitoaNext]_vars

----------------------------------------------------------------------------
(* Properties *)

Max(a, b) == IF a >= b THEN a ELSE b

Min(a, b) == IF a <= b THEN a ELSE b

\* the last loop iteration was a conversion of this kind and wrote its field
Emitted(kind) == cur.kind = kind /\ cur.args # <<>>

\* format_to_buffer has written the terminating NUL and returned
Returned == pc \in {"write", "returned", "exited"}

\* C1: format_to_buffer never writes a byte at an index at or beyond the
\* capacity of the buffer printf gives it, the terminating NUL included.
C1_WritesWithinCapacity ==
    Len(out) + (IF Returned THEN 1 ELSE 0) <= BUFFER_SIZE

\* C2: when the conversion letter is not recognized, the bytes written for
\* the attempted specifier begin with its '%'.
C2_UnknownSpecifierEchoedFromPercent ==
    cur.kind = "unknown" => out[cur.start + 1] = "%"

\* C3: the template cursor never moves past the template's terminating NUL.
C3_CursorWithinTemplate ==
    fpos <= Len(format) + 1

\* the last iteration converted an integer with one of d/i/u/o/x/X
IntegerEmitted ==
    (Emitted("d") \/ Emitted("u")) /\ flags.specifier \in IntConvs

\* the field of the last integer conversion before the width is applied:
\* sign or radix prefix, then the digit body
NaturalField == IF cur.kind = "d" THEN cur.body ELSE cur.prefix \o cur.body

\* C4: a d/i directive with width w, no precision and a signed field of
\* natural length n emits max(w, n) bytes; the w - n padding bytes are leading
\* spaces by default, trailing spaces with '-', and with '0' and no '-' zeros
\* between the sign and the digits.
C4_SignedWidthPadding ==
    (Emitted("d") /\ flags.precision < 0) =>
        LET w       == flags.width
            natural == cur.sign \o cur.digits
            n       == Len(natural)
        IN  /\ Len(cur.field) = Max(w, n)
            /\ n >= w => cur.field = natural
            /\ n < w =>
                 cur.field =
                   IF flags.left_justify = 1 THEN natural \o Fill(" ", w - n)
                   ELSE IF flags.zero_pad = 1
                        THEN cur.sign \o Fill("0", w - n) \o cur.digits
                        ELSE Fill(" ", w - n) \o natural
            /\ (cur.value = <<3, 0, 0, 0>> /\ cur.sign = <<>> /\ w = 5) =>
                 cur.field =
                   IF flags.left_justify = 1 THEN <<"3", " ", " ", " ", " ">>
                   ELSE IF flags.zero_pad = 1 THEN <<"0", "0", "0", "0", "3">>
                        ELSE <<" ", " ", " ", " ", "3">>

\* a negative value zero-filled to a width larger than its natural length
C4_Witness ==
    /\ Emitted("d")
    /\ flags.precision < 0
    /\ flags.zero_pad = 1
    /\ flags.left_justify = 0
    /\ cur.sign = <<"-">>
    /\ flags.width > Len(cur.sign) + Len(cur.digits)

\* C5: a right-justified o/x/X directive with '#' and '0', no precision, a
\* non-zero value and a width larger than the natural field emits the radix
\* prefix, then the zero fill, then the digits.
C5_PrefixBeforeZeroFill ==
    ( /\ Emitted("u")
      /\ flags.specifier \in {"o", "x", "X"}
      /\ flags.alternate_form = 1
      /\ flags.zero_pad = 1
      /\ flags.left_justify = 0
      /\ flags.precision < 0
      /\ cur.value # Zero64
      /\ flags.width > Len(cur.prefix) + Len(cur.digits) ) =>
        cur.field =
          cur.prefix
          \o Fill("0", flags.width - (Len(cur.prefix) + Len(cur.digits)))
          \o cur.digits

\* C6: with an explicit precision the '0' flag has no effect on d/i/u/o/x/X:
\* the width padding is spaces only.
C6_PrecisionDisablesZeroFill ==
    (IntegerEmitted /\ flags.precision >= 0) =>
        LET n   == Len(NaturalField)
            pad == IF flags.width > n THEN flags.width - n ELSE 0
        IN  /\ cur.field =
                 IF flags.left_justify = 1 THEN NaturalField \o Fill(" ", pad)
                 ELSE Fill(" ", pad) \o NaturalField
            /\ ( /\ cur.kind = "d"
                 /\ cur.value = <<3, 0, 0, 0>>
                 /\ flags.precision = 2 /\ flags.width = 5
                 /\ flags.left_justify = 0 /\ cur.sign = <<>> ) =>
                   cur.field = <<" ", " ", " ", "0", "3">>

\* "%05.2d"-like: '0' flag, explicit precision, right-justified, padded
C6_Witness ==
    /\ IntegerEmitted
    /\ flags.precision >= 0
    /\ flags.zero_pad = 1
    /\ flags.left_justify = 0
    /\ flags.width > Len(NaturalField)

\* the digit body of the last integer conversion, without sign or prefix
DigitBody ==
    IF cur.kind = "d" THEN SubSeq(cur.body, Len(cur.sign) + 1, Len(cur.body))
    ELSE cur.body

\* C7: with precision p the digit body of d/i/u/o/x/X, counted without sign
\* and radix prefix, is the digits left-padded with zeros to at least p.
C7_PrecisionPadsDigitBody ==
    (IntegerEmitted /\ flags.precision >= 0) =>
        DigitBody = Fill("0", Max(flags.precision - Len(cur.digits), 0)) \o cur.digits

\* C8: the sign of d/i is '-' for a negative value, else '+' with the '+'
\* flag, else a space with the space flag, else nothing.
C8_SignSelection ==
    Emitted("d") =>
        LET expected ==
                IF cur.value[4] >= 32768 THEN <<"-">>
                ELSE IF flags.always_sign = 1 THEN <<"+">>
                ELSE IF flags.space_sign = 1 THEN <<" ">>
                ELSE <<>>
            zeroFill == flags.zero_pad = 1 /\ flags.precision < 0
            k == IF flags.left_justify = 1 \/ zeroFill THEN 0
                 ELSE Len(cur.field) - Len(cur.body)
        IN  /\ cur.sign = expected
            /\ \A i \in 1..k : cur.field[i] = " "
            /\ SubSeq(cur.field, k + 1, k + Len(expected)) = expected
            /\ \A i \in (k + Len(expected) + 1)..Len(cur.field) :
                 IsDigit(cur.field[i]) \/ cur.field[i] = " "

\* a non-negative value with both the '+' and the space flag
C8_Witness ==
    /\ Emitted("d")
    /\ cur.value[4] < 32768
    /\ flags.always_sign = 1
    /\ flags.space_sign = 1
    /\ cur.sign = <<"+">>

\* C9: '%s' emits the first min(precision, length) bytes of the text (all of
\* it without precision), (null) standing for a NULL argument, and its width
\* padding is spaces also with the '0' flag.
C9_StringTruncationAndPadding ==
    Emitted("s") =>
        LET text == IF cur.arg.null THEN <<"(", "n", "u", "l", "l", ")">>
                    ELSE cur.arg.chars
            n    == IF flags.precision >= 0 THEN Min(flags.precision, Len(text))
                    ELSE Len(text)
            body == [k \in 1..n |-> text[k]]
            pad  == IF flags.width > n THEN flags.width - n ELSE 0
        IN  cur.field = IF flags.left_justify = 1 THEN body \o Fill(" ", pad)
                        ELSE Fill(" ", pad) \o body

\* a text longer than the precision, with the '0' flag and a larger width
C9_Witness ==
    /\ Emitted("s")
    /\ flags.precision >= 0
    /\ flags.precision < Len(cur.text)
    /\ flags.zero_pad = 1
    /\ flags.width > flags.precision

\* C10: with '#' and a non-zero value 'o' is prefixed with 0, 'x' with 0x
\* and 'X' with 0X; without '#', and for 'u', there is no prefix.
C10_RadixPrefix ==
    (Emitted("u") /\ flags.specifier \in {"u", "o", "x", "X"}) =>
        LET nonzero == cur.value # Zero64
            sharp   == flags.alternate_form = 1
            k == IF flags.left_justify = 1 THEN 0
                 ELSE Len(cur.field) - (Len(cur.prefix) + Len(cur.body))
        IN  /\ (sharp /\ nonzero /\ flags.specifier = "o") => cur.prefix = <<"0">>
            /\ (sharp /\ nonzero /\ flags.specifier = "x") => cur.prefix = <<"0", "x">>
            /\ (sharp /\ nonzero /\ flags.specifier = "X") => cur.prefix = <<"0", "X">>
            /\ (~sharp \/ flags.specifier = "u") => cur.prefix = <<>>
            /\ SubSeq(cur.field, k + 1, k + Len(cur.prefix) + Len(cur.body))
                 = cur.prefix \o cur.body
            /\ Len(cur.field) = Max(flags.width, Len(cur.prefix) + Len(cur.body))
            /\ (sharp /\ flags.width = 0 /\ flags.precision < 0) =>
                 /\ (flags.specifier = "x" /\ cur.value = <<255, 0, 0, 0>>) =>
                      cur.field = <<"0", "x", "f", "f">>
                 /\ (flags.specifier = "o" /\ cur.value = <<8, 0, 0, 0>>) =>
                      cur.field = <<"0", "1", "0">>

\* "%#X" of a non-zero value
C10_Witness ==
    /\ Emitted("u")
    /\ flags.specifier = "X"
    /\ flags.alternate_form = 1
    /\ cur.value # Zero64
    /\ cur.prefix = <<"0", "X">>

\* C11: '%p' renders every address, the null address included, as the prefix
\* 0x followed by the address in lowercase hexadecimal.
C11_PointerRendersWithPrefix ==
    (Emitted("u") /\ flags.specifier = "p") =>
        /\ cur.prefix = <<"0", "x">>
        /\ cur.digits = uitoa(cur.value, 16, FALSE)
        /\ (flags.width = 0 /\ flags.precision < 0) =>
             cur.field = <<"0", "x">> \o uitoa(cur.value, 16, FALSE)

\* C12: with the cursor on "%%", the step emits exactly one '%', moves the
\* template cursor by exactly two bytes and leaves the argument cursor alone.
C12_PercentPercent ==
    [][(InLoop /\ At(format, fpos) = "%" /\ At(format, fpos + 1) = "%") =>
          /\ out' = Append(out, "%")
          /\ fpos' = fpos + 2
          /\ apos' = apos]_vars

\* a "%%" handled after earlier directives have consumed arguments
C12_Witness ==
    /\ cur.kind = "percent"
    /\ cur.astart > 0
    /\ apos = cur.astart
    /\ fpos = cur.fstart + 2
    /\ Len(out) = cur.start + 1
    /\ out[Len(out)] = "%"

\* loop iterations that handle a directive to its end
DirectiveKinds == {"c", "s", "d", "u", "f", "n", "unknown"}

Directed == cur.kind = "unknown" \/ (cur.kind \in DirectiveKinds /\ cur.args # <<>>)

\* the bytes of the last directive between its '%' and its conversion letter,
\* read from the template itself
DirectiveBody ==
    LET consumed == IF cur.kind = "unknown" THEN cur.count
                    ELSE (fpos - cur.fstart) - 1
    IN  SubSeq(format, cur.fstart + 1, (cur.fstart + consumed) - 1)

WidthStar ==
    \E i \in 1..Len(DirectiveBody) :
        DirectiveBody[i] = "*" /\ (i = 1 \/ DirectiveBody[i - 1] # ".")

PrecisionStar ==
    \E i \in 2..Len(DirectiveBody) :
        DirectiveBody[i] = "*" /\ DirectiveBody[i - 1] = "."

\* C13: a directive reads its '*' width argument first, then its '.*'
\* precision argument, then its value; the argument cursor moves by exactly
\* the arguments read, and a directive without '*' reads exactly one.
C13_ArgumentOrder ==
    Directed =>
        LET nw == IF WidthStar THEN 1 ELSE 0
            np == IF PrecisionStar THEN 1 ELSE 0
            nv == IF cur.kind = "unknown" THEN 0 ELSE 1
        IN  /\ apos = cur.astart + Len(cur.args)
            /\ Len(cur.args) = nw + np + nv
            /\ Len(cur.vals) = Len(cur.args)
            /\ WidthStar => /\ cur.args[1] = "width"
                            /\ cur.vals[1] >= 0 => flags.width = cur.vals[1]
                            /\ cur.vals[1] < 0 => flags.left_justify = 1
            /\ PrecisionStar => /\ cur.args[nw + 1] = "precision"
                                /\ cur.vals[nw + 1] >= 0 =>
                                     flags.precision = cur.vals[nw + 1]
                                /\ cur.vals[nw + 1] < 0 => flags.precision = -1
            /\ nv = 1 => cur.args[nw + np + 1] \notin {"width", "precision"}
            /\ (nw + np = 0 /\ nv = 1) => apos = cur.astart + 1

\* "%*.*d"-like directive with distinct width and precision arguments
C13_Witness ==
    /\ Directed
    /\ WidthStar
    /\ PrecisionStar
    /\ Len(cur.args) = 3
    /\ cur.vals[1] = 7
    /\ cur.vals[2] = 3
    /\ flags.width = 7
    /\ flags.precision = 3
    /\ apos = cur.astart + 3

\* C14: after width and precision are resolved the width is non-negative and
\* the precision is non-negative or absent (-1); a negative width argument
\* sets left_justify and leaves its absolute value as the width.
C14_ResolvedWidthAndPrecision ==
    /\ cur.kind # "trap"
    /\ Directed =>
         /\ flags.width >= 0
         /\ flags.precision >= -1
         /\ (WidthStar /\ cur.vals[1] < 0) =>
              /\ flags.left_justify = 1
              /\ cur.vals[1] # INT_MIN => flags.width = 0 - cur.vals[1]
         /\ (PrecisionStar /\ cur.vals[Len(cur.args) - (IF cur.kind = "unknown" THEN 0 ELSE 1)] < 0) =>
              flags.precision = -1

\* C16: d/i never negates a signed value whose negation overflows; the
\* minimum 64-bit value is written as '-' and the digits of 2^63.
C16_NoOverflowingNegation ==
    cur.kind = "d" =>
        /\ ~cur.overflow
        /\ (cur.args # <<>> /\ cur.value = INT64_MIN) =>
             cur.digits = uitoa(INT64_MIN, 10, FALSE)

\* C20: '%c' with a width above 1 writes exactly that many bytes, the
\* character with spaces before it, or after it when '-' is set.
C20_CharWidthPadding ==
    (Emitted("c") /\ flags.width > 1) =>
        /\ Len(cur.field) = flags.width
        /\ cur.field = IF flags.left_justify = 1
                       THEN cur.text \o Fill(" ", flags.width - 1)
                       ELSE Fill(" ", flags.width - 1) \o cur.text

\* the value of a digit character, -1 when it is no digit
DigitValue(c) ==
    IF \E k \in 1..16 : digits_lower[k] = c
    THEN (CHOOSE k \in 1..16 : digits_lower[k] = c) - 1
    ELSE IF \E k \in 1..16 : digits_upper[k] = c
    THEN (CHOOSE k \in 1..16 : digits_upper[k] = c) - 1
    ELSE -1

\* acc * base + d on 64 bits, with the carry out of the top limb
MulAdd64(acc, base, d) ==
    LET t1 == acc[1] * base + d
        t2 == acc[2] * base + (t1 \div Limb)
        t3 == acc[3] * base + (t2 \div Limb)
        t4 == acc[4] * base + (t3 \div Limb)
    IN  [val |-> <<t1 % Limb, t2 % Limb, t3 % Limb, t4 % Limb>>,
         carry |-> t4 \div Limb]

\* a digit string read in the given base, most significant digit first
RECURSIVE ReadBack(_, _)
ReadBack(str, base) ==
    IF str = <<>> THEN [val |-> Zero64, ok |-> TRUE]
    ELSE LET head == ReadBack(SubSeq(str, 1, Len(str) - 1), base)
             d    == DigitValue(str[Len(str)])
             ma   == MulAdd64(head.val, base, d)
         IN  IF head.ok /\ d >= 0 /\ d < base /\ ma.carry = 0
             THEN [val |-> ma.val, ok |-> TRUE]
             ELSE [val |-> Zero64, ok |-> FALSE]

\* C15: the digit string written by uitoa reads back in its base as the
\* value, most significant digit first, with no leading zero unless the
\* value is 0, whose string is exactly "0".
C15_UitoaRoundTrip ==
    pc = "uitoa done" =>
        LET rb == ReadBack(cur.digits, Base(flags))
        IN  /\ cur.digits # <<>>
            /\ rb.ok
            /\ rb.val = cur.value
            /\ cur.value = Zero64 => cur.digits = <<"0">>
            /\ cur.value # Zero64 => cur.digits[1] # "0"

\* 2^64 - 1 in base 8: twenty-two digits, the first of them 1
C15_Witness ==
    /\ pc = "uitoa done"
    /\ cur.value = <<65535, 65535, 65535, 65535>>
    /\ Base(flags) = 8
    /\ Len(cur.digits) = 22
    /\ cur.digits[1] = "1"
    /\ cur.digits[22] = "7"

\* the last iteration converted a double with one of the given letters
FloatEmitted(convs) == Emitted("f") /\ flags.specifier \in convs

\* the double the last floating-point conversion read
FloatArg == cur.vals[Len(cur.vals)]

\* the string the conversion routine produced is in scientific notation
IsScientific(text) == \E k \in 1..Len(text) : text[k] \in {"e", "E"}

HasPoint(text) == \E k \in 1..Len(text) : text[k] = "."

\* the digits between the decimal point and the exponent or the end
FractionDigits(text) ==
    IF ~HasPoint(text) THEN 0
    ELSE LET dot  == CHOOSE k \in 1..Len(text) : text[k] = "."
             last == IF IsScientific(text)
                     THEN (CHOOSE k \in 1..Len(text) : text[k] \in {"e", "E"}) - 1
                     ELSE Len(text)
         IN  last - dot

\* number of decimal digits of a positive integer
RECURSIVE NumDigits(_)
NumDigits(n) == IF n < 10 THEN 1 ELSE 1 + NumDigits(n \div 10)

\* the decimal exponent X of a finite non-zero value: 10^X <= |value| < 10^(X+1)
DecimalExponent(v) ==
    IF v.ip > 0 THEN NumDigits(v.ip) - 1
    ELSE 0 - (CHOOSE k \in 1..Len(v.fd) :
                 v.fd[k] # 0 /\ \A j \in 1..(k - 1) : v.fd[j] = 0)

\* C17: g/G with precision 0 renders every value exactly as with precision 1.
C17_GeneralPrecisionZeroIsOne ==
    (FloatEmitted({"g", "G"}) /\ flags.precision = 0) =>
        cur.text = gtoa(FloatArg, 1, flags.specifier = "G")

C19_AlternateFormForcesPoint ==
    (/\ FloatEmitted({"f", "F", "g", "G"})
     /\ flags.alternate_form = 1
     /\ FloatArg.cls = "fin") =>
        HasPoint(cur.text)

\* how often the byte c occurs in the last directive
CountIn(c) == Cardinality({k \in 1..Len(DirectiveBody) : DirectiveBody[k] = c})

\* the argument width the length modifier written in the directive selects
LengthBits ==
    IF CountIn("h") = 2 THEN 8
    ELSE IF CountIn("h") = 1 THEN 16
    ELSE IF \E c \in {"l", "j", "z", "t"} : CountIn(c) > 0 THEN 64
    ELSE 32

\* the argument slot reduced to that width, signed or unsigned
Reduced(slot, bits, signed) ==
    IF bits = 64 THEN slot
    ELSE IF bits = 32
    THEN (IF signed /\ slot[2] >= 32768 THEN <<slot[1], slot[2], 65535, 65535>>
          ELSE <<slot[1], slot[2], 0, 0>>)
    ELSE LET m   == IF bits = 8 THEN 256 ELSE 65536
             low == slot[1] % m
         IN  FromInt(IF signed /\ 2 * low >= m THEN low - m ELSE low)

\* C21: the integer rendered is the argument reduced to the width the length
\* modifier selects: 8, 16, 32 or 64 bits, signed for d/i and unsigned for
\* u/o/x/X; "%hhd" of 300 is 44, "%hhu" of -1 is 255, "%x" of -1 is ffffffff.
C21_LengthModifierWidth ==
    (IntegerEmitted /\ CountIn("L") = 0) =>
        LET signed   == cur.kind = "d"
            slot     == cur.vals[Len(cur.vals)]
            expected == Reduced(slot, LengthBits, signed)
            negative == signed /\ IsNeg64(expected)
            plain    == DirectiveBody \in {<<>>, <<"h">>, <<"h", "h">>}
        IN  /\ cur.value = expected
            /\ signed => (cur.sign = <<"-">> <=> negative)
            /\ cur.digits # <<>> =>
                 ReadBack(cur.digits, Base(flags)).val
                   = IF negative THEN Neg64(expected) ELSE expected
            /\ (plain /\ LengthBits = 8 /\ signed /\ slot = FromInt(300)) =>
                 cur.field = <<"4", "4">>
            /\ (plain /\ LengthBits = 8 /\ flags.specifier = "u"
                      /\ slot = FromInt(-1)) =>
                 cur.field = <<"2", "5", "5">>
            /\ (plain /\ LengthBits = 32 /\ flags.specifier = "x"
                      /\ slot = FromInt(-1)) =>
                 cur.field = <<"f", "f", "f", "f", "f", "f", "f", "f">>

\* "%hhd" of 300
C21_Witness ==
    /\ Emitted("d")
    /\ DirectiveBody = <<"h", "h">>
    /\ cur.vals = <<FromInt(300)>>
    /\ cur.value = FromInt(44)
    /\ cur.field = <<"4", "4">>

\* C22: an integer directive writes only inside its scratch arrays: what it
\* stores in temp_buffer, final_buffer and prec_buffer, the terminating NUL
\* included, stays within 256, 128 and 128 bytes.
C22_ScratchWritesWithinBuffers ==
    cur.kind \in {"d", "u"} =>
        /\ cur.temp_used <= TEMP_SIZE
        /\ cur.final_used <= FINAL_SIZE
        /\ cur.prec_used <= PREC_SIZE

====
